---- MODULE Spec2Model ----
(***************************************************************************)
(* Model of the supplier-allocation optimizer                              *)
(* (src/src/optimizer/solver.py, src/src/optimizer/models.py).             *)
(*                                                                         *)
(* A ProblemData value is chosen initially; build_model turns it into      *)
(* boolean decision variables, linear constraints and an integer           *)
(* objective; solve hands that model to the CP-SAT solver and converts     *)
(* the outcome into an OptimizationResult.                                 *)
(*                                                                         *)
(* Validation (src/src/optimizer/data_loader.py).  A second next-state     *)
(* relation, NextValidate, starts from loaded lists that may be unsound    *)
(* and applies ProblemData(...) and _validate_problem_data to them; the    *)
(* parsing of the input files that precedes these calls is not modelled.   *)
(*                                                                         *)
(* Command line (src/src/optimizer/cli.py).  A third next-state relation,  *)
(* NextCli, follows the solve command: load_problem_data, build_model,     *)
(* solve, display and save, or the exception handler; then the scripts     *)
(* that read the written file (src/verify_brand_constraint.py,             *)
(* src/export_results.py).                                                 *)
(*                                                                         *)
(* Numbers.  unit_cost is a positive float in the program.  Here a unit    *)
(* cost is an exact rational n / CostDenominator, stored as its numerator  *)
(* n; total_cost is stored the same way.  objective_value is the pair      *)
(* <<ObjectiveValue, ScaleFactor>>, i.e. ObjectiveValue / 1000.  The       *)
(* arithmetic is exact: the rounding of the float products themselves is   *)
(* not represented, only the truncation int() performs.                    *)
(***************************************************************************)
EXTENDS Integers, Sequences, FiniteSets, TLC

VARIABLES
    data,         \* self.data: the ProblemData handed to the solver object
    pc,           \* "constructed", "built", "build_error", "solved";
                  \* "unvalidated", "validated", "validation_error";
                  \* "start", "load_error", "exited" in a command-line run
    x,            \* self.x: the (book, supplier, method) triples having a variable
    model,        \* self.model: auxiliary booleans, constraints, objective
    error,        \* the exception build_model or validation raised, <<>> when none
    solver_calls, \* number of solver.Solve invocations so far
    result,       \* the OptimizationResult returned by solve, <<>> before
    output_file,  \* whether the solve command was given --output
    saved,        \* the JSON document written to the output file, <<>> if none
    exit_code,    \* exit code of the solve command, -1 while it runs
    audit,        \* verdict of verify_brand_constraint on the output file
    reloaded      \* what OptimizationResult(**result_dict) made of the file

\* the variables of the command-line run around the solver
cli == <<output_file, saved, exit_code, audit, reloaded>>

vars == <<data, pc, x, model, error, solver_calls, result,
          output_file, saved, exit_code, audit, reloaded>>

----------------------------------------------------------------------------
(* Bounds of the model *)

MaxVolume == 2
MaxCapacity == 3
MaxCeiling == 2
SubUnits == 4

(* Program constants *)

ScaleFactor == 1000

\* unit costs are multiples of 1 / CostDenominator
CostDenominator == ScaleFactor * SubUnits

NoKit == "none"

----------------------------------------------------------------------------
(* Generic helpers *)

Range(s) == {s[i] : i \in DOMAIN s}

RECURSIVE SumFn(_, _)
SumFn(f, S) ==
    IF S = {} THEN 0
    ELSE LET t == CHOOSE u \in S : TRUE
         IN f[t] + SumFn(f, S \ {t})

\* sum of coef[t] * value[t] where value[t] = 1 iff t \in ones
LinSum(coef, ones) == SumFn(coef, DOMAIN coef \cap ones)

RECURSIVE SeqSum(_)
SeqSum(s) == IF s = <<>> THEN 0 ELSE Head(s) + SeqSum(Tail(s))

RECURSIVE Concat(_)
Concat(ss) == IF ss = <<>> THEN <<>> ELSE Head(ss) \o Concat(Tail(ss))

MinOf(S) == CHOOSE v \in S : \A w \in S : v <= w

NoFn == [t \in {} |-> 0]

Ones(S) == [t \in S |-> 1]

----------------------------------------------------------------------------
(* Domain model: models.py *)

Book(id, brand, volume, methods, kit) ==
    [id |-> id, brand |-> brand, production_volume |-> volume,
     available_printing_methods |-> methods, kit_id |-> kit]

Kit(id, book_ids) == [id |-> id, book_ids |-> book_ids]

Supplier(id, capacities) == [id |-> id, capacities |-> capacities]

Cost(book_id, supplier_id, method, unit_cost) ==
    [book_id |-> book_id, supplier_id |-> supplier_id,
     printing_method |-> method, unit_cost |-> unit_cost]

OptimizationConfig(ceiling, symmetry) ==
    [max_volumes_per_brand_per_supplier |-> ceiling,
     enable_symmetry_breaking |-> symmetry]

ProblemData(books, kits, suppliers, costs, config) ==
    [books |-> books, kits |-> kits, suppliers |-> suppliers,
     costs |-> costs, config |-> config]

----------------------------------------------------------------------------
(* SupplierAllocationSolver.__init__ : lookup tables *)

cost_matrix(d) ==
    [t \in {<<c.book_id, c.supplier_id, c.printing_method>> : c \in d.costs} |->
        (CHOOSE c \in d.costs :
            <<c.book_id, c.supplier_id, c.printing_method>> = t).unit_cost]

book_map(d) ==
    [id \in {b.id : b \in Range(d.books)} |->
        CHOOSE b \in Range(d.books) : b.id = id]

books_by_brand(d) ==
    [brand \in {b.brand : b \in Range(d.books)} |->
        {b.id : b \in {c \in Range(d.books) : c.brand = brand}}]

SupplierIds(d) == {s.id : s \in Range(d.suppliers)}

----------------------------------------------------------------------------
(* The CP-SAT model under construction.  A constraint is a record            *)
(*   kind  : the statement of solver.py that added it                        *)
(*   lhs   : coefficient of each decision variable on the left               *)
(*   aux   : the auxiliary boolean it mentions (<<>> when none)              *)
(*   auxs  : the auxiliary booleans summed on the left (brand cap)           *)
(*   rhs   : coefficient of each decision variable on the right              *)
(*   bound : the integer constant                                            *)
(*   "assign"     sum(lhs) == 1            "kit_ref"    sum(lhs) == aux       *)
(*   "kit_member" sum(lhs) == aux          "brand_ind"  sum(lhs) == aux       *)
(*   "brand_zero" aux == 0                 "brand_cap"  sum(auxs) <= bound    *)
(*   "capacity"   sum(lhs) <= bound        "symmetry"   sum(lhs) >= sum(rhs)  *)

Con(kind, lhs, aux, auxs, rhs, bound) ==
    [kind |-> kind, lhs |-> lhs, aux |-> aux, auxs |-> auxs,
     rhs |-> rhs, bound |-> bound]

EmptyModel ==
    [bool_vars |-> {}, constraints |-> {}, objective |-> NoFn,
     has_objective |-> FALSE]

\* the decision variables of one book at one supplier, over the book's methods
VarsAt(d, xv, book_id, supplier_id) ==
    {<<book_id, supplier_id, m>> :
        m \in Range(book_map(d)[book_id].available_printing_methods)} \cap xv

\* mutant: a variable for every cost entry, whether or not the method is one
\* of the book's
_create_variables_AnyMethod(d) ==
    {t \in DOMAIN cost_matrix(d) :
        /\ t[1] \in {b.id : b \in Range(d.books)}
        /\ t[2] \in SupplierIds(d)}

\* _create_variables: one boolean per (book, supplier, available method)
\* that has a cost entry
_create_variables(d) ==
    UNION {{<<b.id, s.id, m>> :
                s \in Range(d.suppliers),
                m \in Range(b.available_printing_methods)} : b \in Range(d.books)}
    \cap DOMAIN cost_matrix(d)

\* valid_assignments of one book in _add_assignment_constraints
valid_assignments(d, xv, b) ==
    UNION {VarsAt(d, xv, b.id, s.id) : s \in Range(d.suppliers)}

\* mutant: a book without a candidate variable is skipped instead of raised on
FirstUnassignable_Skipped(d, xv) == 0

\* index of the first book without a candidate variable, 0 when every book has one
FirstUnassignable(d, xv) ==
    LET bad == {i \in DOMAIN d.books : valid_assignments(d, xv, d.books[i]) = {}}
    IN IF bad = {} THEN 0 ELSE MinOf(bad)

\* mutant: sum(valid_assignments) <= 1 instead of == 1
AssignmentConstraint_AtMostOne(d, xv, b) ==
    Con("capacity", Ones(valid_assignments(d, xv, b)), <<>>, {}, NoFn, 1)

\* the constraint "exactly one (supplier, method) pair" of one book
AssignmentConstraint(d, xv, b) ==
    Con("assign", Ones(valid_assignments(d, xv, b)), <<>>, {}, NoFn, 1)

\* _add_assignment_constraints: the constraints added for the books it got
\* through (all of them, or those before the book it raised on)
_add_assignment_constraints(d, xv) ==
    LET stop == FirstUnassignable(d, xv)
        done == IF stop = 0 THEN DOMAIN d.books ELSE 1 .. (stop - 1)
    IN {AssignmentConstraint(d, xv, d.books[i]) : i \in done}

KitVar(kit, supplier_id) == <<"kit", kit.id, supplier_id>>

\* _add_kit_cohesion_constraints: the auxiliary booleans it creates
KitBoolVars(d) ==
    {KitVar(kit, s.id) :
        kit \in {k \in Range(d.kits) : Len(k.book_ids) >= 2},
        s \in Range(d.suppliers)}

\* mutant: the reference book does not define kit_supplier_vars[supplier]
KitRefConstraints_Omitted(d, xv, kit) == {}

\* the definition of kit_supplier_vars[supplier] through the reference book
KitRefConstraints(d, xv, kit) ==
    {Con("kit_ref", Ones(VarsAt(d, xv, kit.book_ids[1], s.id)),
         KitVar(kit, s.id), {}, NoFn, 0) :
        s \in {t \in Range(d.suppliers) :
                  VarsAt(d, xv, kit.book_ids[1], t.id) # {}}}

\* every other member follows kit_supplier_vars[supplier]
KitMemberConstraints(d, xv, kit) ==
    UNION {{Con("kit_member", Ones(VarsAt(d, xv, kit.book_ids[i], s.id)),
                KitVar(kit, s.id), {}, NoFn, 0) :
               s \in {t \in Range(d.suppliers) :
                         VarsAt(d, xv, kit.book_ids[i], t.id) # {}}} :
           i \in 2 .. Len(kit.book_ids)}

_add_kit_cohesion_constraints(d, xv) ==
    UNION {KitRefConstraints(d, xv, kit) \cup KitMemberConstraints(d, xv, kit) :
           kit \in {k \in Range(d.kits) : Len(k.book_ids) >= 2}}

BrandVar(brand, book_id, supplier_id) == <<"brand", brand, book_id, supplier_id>>

BrandBoolVars(d) ==
    UNION {{BrandVar(brand, id, s.id) :
               id \in books_by_brand(d)[brand], s \in Range(d.suppliers)} :
           brand \in DOMAIN books_by_brand(d)}

\* the books of a brand that have a variable at the supplier
brand_books_to_supplier(d, xv, brand, supplier_id) ==
    {id \in books_by_brand(d)[brand] : VarsAt(d, xv, id, supplier_id) # {}}

\* the indicator of one (brand, book, supplier): tied to the book's
\* variables at the supplier, or fixed to 0 when it has none
BrandIndicatorConstraint(d, xv, brand, id, supplier_id) ==
    IF VarsAt(d, xv, id, supplier_id) # {}
    THEN Con("brand_ind", Ones(VarsAt(d, xv, id, supplier_id)),
             BrandVar(brand, id, supplier_id), {}, NoFn, 0)
    ELSE Con("brand_zero", NoFn, BrandVar(brand, id, supplier_id), {}, NoFn, 0)

\* mutant: the sum is bounded by max_volumes + 1
BrandCapConstraint_OffByOne(d, xv, brand, supplier_id) ==
    Con("brand_cap", NoFn, <<>>,
        {BrandVar(brand, id, supplier_id) :
            id \in brand_books_to_supplier(d, xv, brand, supplier_id)},
        NoFn, d.config.max_volumes_per_brand_per_supplier + 1)

\* sum(brand_books_to_supplier) <= max_volumes
BrandCapConstraint(d, xv, brand, supplier_id) ==
    Con("brand_cap", NoFn, <<>>,
        {BrandVar(brand, id, supplier_id) :
            id \in brand_books_to_supplier(d, xv, brand, supplier_id)},
        NoFn, d.config.max_volumes_per_brand_per_supplier)

\* mutant: the indicators are defined but their sum is never bounded
_add_brand_diversification_constraints_IndicatorsOnly(d, xv) ==
    UNION {{BrandIndicatorConstraint(d, xv, brand, id, s.id) :
               id \in books_by_brand(d)[brand], s \in Range(d.suppliers)} :
           brand \in DOMAIN books_by_brand(d)}

_add_brand_diversification_constraints(d, xv) ==
    UNION {{BrandIndicatorConstraint(d, xv, brand, id, s.id) :
               id \in books_by_brand(d)[brand], s \in Range(d.suppliers)} :
           brand \in DOMAIN books_by_brand(d)}
    \cup
    UNION {{BrandCapConstraint(d, xv, brand, s.id) :
               s \in {t \in Range(d.suppliers) :
                         brand_books_to_supplier(d, xv, brand, t.id) # {}}} :
           brand \in DOMAIN books_by_brand(d)}

\* books_by_method[method] of one supplier in _add_capacity_constraints
books_by_method(d, xv, supplier_id, method) ==
    {t \in xv : /\ t[2] = supplier_id
                /\ t[3] = method
                /\ t[1] \in DOMAIN book_map(d)
                /\ method \in Range(book_map(d)[t[1]].available_printing_methods)}

\* mutant: every book weighs 1 instead of its production_volume
VolumeCoef_CountsBooks(d, S) == [t \in S |-> 1]

\* volume * self.x[book_id, supplier.id, method]
VolumeCoef(d, S) == [t \in S |-> book_map(d)[t[1]].production_volume]

\* one constraint per declared (supplier, method) some book can use there
_add_capacity_constraints(d, xv) ==
    UNION {{Con("capacity",
                VolumeCoef(d, books_by_method(d, xv, s.id, m)),
                <<>>, {}, NoFn, s.capacities[m]) :
               m \in {n \in DOMAIN s.capacities :
                         books_by_method(d, xv, s.id, n) # {}}} :
           s \in Range(d.suppliers)}

\* mutant: the scaled product is rounded up instead of truncated
ScaledCost_RoundedUp(unit_cost, volume) ==
    (unit_cost * volume * ScaleFactor + CostDenominator - 1) \div CostDenominator

\* mutant: the production volume is left out of the coefficient
ScaledCost_WithoutVolume(unit_cost, volume) ==
    (unit_cost * ScaleFactor) \div CostDenominator

\* int(unit_cost * production_volume * 1000): truncation of the scaled cost
ScaledCost(unit_cost, volume) ==
    (unit_cost * volume * ScaleFactor) \div CostDenominator

\* _add_objective: the integer coefficient of every decision variable
_add_objective(d, xv) ==
    [t \in xv |->
        ScaledCost(cost_matrix(d)[t], book_map(d)[t[1]].production_volume)]

\* the suppliers sharing one capacity map, in input order
SupplierGroup(d, capacities) ==
    SelectSeq(d.suppliers, LAMBDA s : s.capacities = capacities)

\* identical_costs of one group: no (book, available method) is priced
\* differently by two suppliers of the group that both price it
identical_costs(d, group) ==
    \A b \in Range(d.books) :
        \A m \in Range(b.available_printing_methods) :
            Cardinality({cost_matrix(d)[<<b.id, s.id, m>>] :
                            s \in {t \in Range(group) :
                                      <<b.id, t.id, m>> \in DOMAIN cost_matrix(d)}}) <= 1

\* the decision variables of one supplier
SupplierVars(xv, supplier_id) == {t \in xv : t[2] = supplier_id}

\* total volume of group[i] >= total volume of group[i + 1]
SymmetryConstraint(d, xv, s1_id, s2_id) ==
    Con("symmetry", VolumeCoef(d, SupplierVars(xv, s1_id)), <<>>, {},
        VolumeCoef(d, SupplierVars(xv, s2_id)), 0)

_add_symmetry_breaking_constraints(d, xv) ==
    UNION {LET group == SupplierGroup(d, sig)
           IN IF Len(group) >= 2 /\ identical_costs(d, group)
              THEN {SymmetryConstraint(d, xv, group[i].id, group[i + 1].id) :
                       i \in {j \in 1 .. (Len(group) - 1) :
                                 /\ SupplierVars(xv, group[j].id) # {}
                                 /\ SupplierVars(xv, group[j + 1].id) # {}}}
              ELSE {} :
           sig \in {s.capacities : s \in Range(d.suppliers)}}

\* build_model, when no book is unassignable
BuiltModel(d, xv) ==
    [bool_vars |-> KitBoolVars(d) \cup BrandBoolVars(d),
     constraints |->
        _add_assignment_constraints(d, xv)
        \cup _add_kit_cohesion_constraints(d, xv)
        \cup _add_brand_diversification_constraints(d, xv)
        \cup _add_capacity_constraints(d, xv)
        \cup (IF d.config.enable_symmetry_breaking
              THEN _add_symmetry_breaking_constraints(d, xv)
              ELSE {}),
     objective |-> _add_objective(d, xv),
     has_objective |-> TRUE]

\* the state of self.model when _add_assignment_constraints raises
PartialModel(d, xv) ==
    [bool_vars |-> {}, constraints |-> _add_assignment_constraints(d, xv),
     objective |-> NoFn, has_objective |-> FALSE]

\* ValueError(f"Book {book.id} has no valid (supplier, method) assignments")
UnassignableError(book_id) ==
    <<"ValueError", "Book", book_id, "has no valid (supplier, method) assignments">>

----------------------------------------------------------------------------
(* The solving capability: cp_model.CpSolver.Solve on the built model.       *)
(* A valuation of the decision variables is the set of those equal to 1.     *)

\* the values an auxiliary boolean can take, given the decision variables
AuxValues(m, a, ones) ==
    {v \in {0, 1} :
        \A c \in {e \in m.constraints : e.aux = a} :
            /\ c.kind \in {"kit_ref", "kit_member", "brand_ind"}
                  => LinSum(c.lhs, ones) = v
            /\ c.kind = "brand_zero" => v = 0}

\* one constraint is satisfiable by some value of the auxiliary booleans
Holds(m, c, ones) ==
    CASE c.kind = "assign" -> LinSum(c.lhs, ones) = c.bound
      [] c.kind \in {"kit_ref", "kit_member", "brand_ind", "brand_zero"} ->
            AuxValues(m, c.aux, ones) # {}
      [] c.kind = "brand_cap" ->
            /\ \A a \in c.auxs : AuxValues(m, a, ones) # {}
            /\ SumFn([a \in c.auxs |-> MinOf(AuxValues(m, a, ones))], c.auxs)
                  <= c.bound
      [] c.kind = "capacity" -> LinSum(c.lhs, ones) <= c.bound
      [] c.kind = "symmetry" -> LinSum(c.lhs, ones) >= LinSum(c.rhs, ones)

\* the valuations of the decision variables that satisfy the model
Feasible(m, xv) ==
    {ones \in SUBSET xv : \A c \in m.constraints : Holds(m, c, ones)}

ObjectiveValue(m, ones) == LinSum(m.objective, ones)

Minimal(m, S) ==
    {ones \in S : \A other \in S : ObjectiveValue(m, ones) <= ObjectiveValue(m, other)}

\* what Solve may return: a proven optimum, an incumbent at the time limit,
\* a proof of infeasibility, or nothing at the time limit
SolverOutcomes(m, xv) ==
    LET feasible == Feasible(m, xv)
    IN {[status |-> "OPTIMAL", ones |-> o] : o \in Minimal(m, feasible)}
       \cup {[status |-> "FEASIBLE", ones |-> o] : o \in feasible}
       \cup (IF feasible = {} THEN {[status |-> "INFEASIBLE", ones |-> {}]} ELSE {})
       \cup {[status |-> "UNKNOWN", ones |-> {}]}

----------------------------------------------------------------------------
(* Result extraction *)

\* mutant: total_cost is the unit cost, not multiplied by the volume
Assignment_UnitTotal(b, supplier_id, method, unit_cost) ==
    [book_id |-> b.id, supplier_id |-> supplier_id, printing_method |-> method,
     production_volume |-> b.production_volume, unit_cost |-> unit_cost,
     total_cost |-> unit_cost]

Assignment(b, supplier_id, method, unit_cost) ==
    [book_id |-> b.id, supplier_id |-> supplier_id, printing_method |-> method,
     production_volume |-> b.production_volume, unit_cost |-> unit_cost,
     total_cost |-> unit_cost * b.production_volume]

\* the inner loop over the book's methods: it stops at the first variable
\* whose value is 1
ExtractAt(d, xv, ones, b, s) ==
    LET hits == {k \in DOMAIN b.available_printing_methods :
                    <<b.id, s.id, b.available_printing_methods[k]>> \in xv \cap ones}
    IN IF hits = {} THEN <<>>
       ELSE LET method == b.available_printing_methods[MinOf(hits)]
            IN <<Assignment(b, s.id, method, cost_matrix(d)[<<b.id, s.id, method>>])>>

_extract_assignments(d, xv, ones) ==
    Concat([i \in DOMAIN d.books |->
        Concat([j \in DOMAIN d.suppliers |->
            ExtractAt(d, xv, ones, d.books[i], d.suppliers[j])])])

\* mutant: the volume is accumulated per supplier, whatever the method
volume_used_AnyMethod(assignments, supplier_id, method) ==
    SeqSum([i \in DOMAIN assignments |->
        IF assignments[i].supplier_id = supplier_id
        THEN assignments[i].production_volume ELSE 0])

\* volume_used[supplier][method]
volume_used(assignments, supplier_id, method) ==
    SeqSum([i \in DOMAIN assignments |->
        IF /\ assignments[i].supplier_id = supplier_id
           /\ assignments[i].printing_method = method
        THEN assignments[i].production_volume ELSE 0])

\* used / capacity * 100 as the fraction <<used * 100, capacity>>
_calculate_utilization(d, assignments) ==
    [id \in SupplierIds(d) |->
        LET s == CHOOSE t \in Range(d.suppliers) : t.id = id
        IN [m \in DOMAIN s.capacities |->
               IF s.capacities[m] > 0
               THEN <<volume_used(assignments, id, m) * 100, s.capacities[m]>>
               ELSE <<0, 1>>]]

OptimizationResult(status, objective_value, assignments, utilization) ==
    [status |-> status, objective_value |-> objective_value,
     assignments |-> assignments, total_books |-> Len(assignments),
     total_volume |-> SeqSum([i \in DOMAIN assignments |->
                                 assignments[i].production_volume]),
     supplier_utilization |-> utilization]

\* mutant: the solver's integer objective is reported without the division
\* by the scale factor
SolveResult_Unscaled(d, m, xv, outcome) ==
    IF outcome.status \in {"OPTIMAL", "FEASIBLE"}
    THEN LET assignments == _extract_assignments(d, xv, outcome.ones)
         IN OptimizationResult(outcome.status,
                               <<ObjectiveValue(m, outcome.ones), 1>>,
                               assignments,
                               _calculate_utilization(d, assignments))
    ELSE OptimizationResult(outcome.status, <<>>, <<>>, <<>>)

\* mutant: the utilization report is computed whatever the status
SolveResult_AlwaysReports(d, m, xv, outcome) ==
    IF outcome.status \in {"OPTIMAL", "FEASIBLE"}
    THEN LET assignments == _extract_assignments(d, xv, outcome.ones)
         IN OptimizationResult(outcome.status,
                               <<ObjectiveValue(m, outcome.ones), ScaleFactor>>,
                               assignments,
                               _calculate_utilization(d, assignments))
    ELSE OptimizationResult(outcome.status, <<>>, <<>>,
                            _calculate_utilization(d, <<>>))

\* the OptimizationResult solve builds from what the solver returned
SolveResult(d, m, xv, outcome) ==
    IF outcome.status \in {"OPTIMAL", "FEASIBLE"}
    THEN LET assignments == _extract_assignments(d, xv, outcome.ones)
         IN OptimizationResult(outcome.status,
                               <<ObjectiveValue(m, outcome.ones), ScaleFactor>>,
                               assignments,
                               _calculate_utilization(d, assignments))
    ELSE OptimizationResult(outcome.status, <<>>, <<>>, <<>>)

----------------------------------------------------------------------------
(* Validation: the ProblemData validators and _validate_problem_data.        *)
(* An outcome is <<>> when the call returns and the raised error otherwise.   *)

HasDuplicates(ids) == Len(ids) # Cardinality(Range(ids))

IdsOf(v) == [i \in DOMAIN v |-> v[i].id]

validate_unique_books(v) ==
    IF HasDuplicates(IdsOf(v)) THEN <<"Duplicate book IDs found">> ELSE <<>>

validate_unique_kits(v) ==
    IF HasDuplicates(IdsOf(v)) THEN <<"Duplicate kit IDs found">> ELSE <<>>

validate_unique_suppliers(v) ==
    IF HasDuplicates(IdsOf(v)) THEN <<"Duplicate supplier IDs found">> ELSE <<>>

\* ProblemData(...): the field validators run in field order and their
\* failures are reported together in one ValidationError
ProblemDataOutcome(d) ==
    LET failures == validate_unique_books(d.books)
                    \o validate_unique_kits(d.kits)
                    \o validate_unique_suppliers(d.suppliers)
    IN IF failures = <<>> THEN <<>> ELSE <<"ValidationError">> \o failures

\* the (book_id, kit id) pairs in the order the loops over kits visit them
KitEntries(d) ==
    Concat([i \in DOMAIN d.kits |->
        [j \in DOMAIN d.kits[i].book_ids |-> <<d.kits[i].book_ids[j], d.kits[i].id>>]])

\* "Validate kit book references"
KitReferenceOutcome(d) ==
    LET entries == KitEntries(d)
        bad == {n \in DOMAIN entries : entries[n][1] \notin Range(IdsOf(d.books))}
    IN IF bad = {} THEN <<>>
       ELSE <<"ValueError", "Kit", entries[MinOf(bad)][2],
              "references non-existent book", entries[MinOf(bad)][1]>>

\* "Validate cost references"; the cost entries are kept as a set, so the
\* first offending entry is some offending entry
CostReferenceOutcome(d) ==
    LET bad == {c \in d.costs : \/ c.book_id \notin Range(IdsOf(d.books))
                                \/ c.supplier_id \notin SupplierIds(d)}
    IN IF bad = {} THEN <<>>
       ELSE LET c == CHOOSE e \in bad : TRUE
            IN IF c.book_id \notin Range(IdsOf(d.books))
               THEN <<"ValueError", "Cost entry references non-existent book",
                      c.book_id>>
               ELSE <<"ValueError", "Cost entry references non-existent supplier",
                      c.supplier_id>>

books_without_costs(d) == Range(IdsOf(d.books)) \ {c.book_id : c \in d.costs}

\* sorted(...) over the identifiers the instances use
IdOrder == <<"b1", "b2", "b3">>

\* "Check that all books have at least one cost entry"
BooksWithoutCostsOutcome(d) ==
    IF books_without_costs(d) = {} THEN <<>>
    ELSE <<"ValueError", "Books without cost data">>
         \o SelectSeq(IdOrder, LAMBDA id : id \in books_without_costs(d))

\* mutant: the test for a book listed in two kits is left out
MultipleKitsOutcome_Unchecked(d) == <<>>

\* "Validate kit book assignments"
MultipleKitsOutcome(d) ==
    LET entries == KitEntries(d)
        again == {n \in DOMAIN entries :
                     \E k \in 1 .. (n - 1) : entries[k][1] = entries[n][1]}
    IN IF again = {} THEN <<>>
       ELSE LET n == MinOf(again)
                first == CHOOSE k \in 1 .. (n - 1) : entries[k][1] = entries[n][1]
            IN <<"ValueError", "Book", entries[n][1], "appears in multiple kits",
                 entries[first][2], entries[n][2]>>

\* the dictionary the loop leaves behind: a later entry overwrites an earlier
kit_book_assignments(d) ==
    LET entries == KitEntries(d)
    IN [id \in {entries[n][1] : n \in DOMAIN entries} |->
           entries[CHOOSE n \in DOMAIN entries :
                      /\ entries[n][1] = id
                      /\ \A k \in DOMAIN entries : entries[k][1] = id => k <= n][2]]

\* "Validate books' kit_id matches actual kit membership": only books whose
\* kit_id is set are looked at
KitIdOutcome(d) ==
    LET kba == kit_book_assignments(d)
        bad == {i \in DOMAIN d.books :
                   /\ d.books[i].kit_id # NoKit
                   /\ \/ d.books[i].id \notin DOMAIN kba
                      \/ kba[d.books[i].id] # d.books[i].kit_id}
    IN IF bad = {} THEN <<>>
       ELSE LET b == d.books[MinOf(bad)]
            IN IF b.id \notin DOMAIN kba
               THEN <<"ValueError", "Book", b.id, "claims to be in kit", b.kit_id,
                      "but is not listed in any kit">>
               ELSE <<"ValueError", "Book", b.id, "kit_id mismatch: claims",
                      b.kit_id, "but is in", kba[b.id]>>

\* {book.printing_method for book in data.books}: Book has no such field, so
\* the first book read raises
PrintingMethodsOutcome(d) ==
    IF d.books = <<>> THEN <<>>
    ELSE <<"AttributeError", "Book", "printing_method">>

\* the first step that raises decides the outcome
FirstFailure(outcomes) ==
    LET failed == {i \in DOMAIN outcomes : outcomes[i] # <<>>}
    IN IF failed = {} THEN <<>> ELSE outcomes[MinOf(failed)]

_validate_problem_data(d) ==
    IF KitReferenceOutcome(d) # <<>> THEN KitReferenceOutcome(d)
    ELSE IF CostReferenceOutcome(d) # <<>> THEN CostReferenceOutcome(d)
    ELSE FirstFailure(<<BooksWithoutCostsOutcome(d), MultipleKitsOutcome(d),
                        KitIdOutcome(d), PrintingMethodsOutcome(d)>>)

\* problem_data = ProblemData(...) followed by _validate_problem_data
ProblemDataValidation(d) ==
    IF ProblemDataOutcome(d) # <<>> THEN ProblemDataOutcome(d)
    ELSE _validate_problem_data(d)

\* load_costs_from_csv: each row becomes Cost(book_id=, supplier_id=,
\* unit_cost=); the required field printing_method is never passed, so the
\* first row raises
load_costs_from_csv(rows) ==
    IF rows = {} THEN <<>>
    ELSE <<"ValidationError", "Cost", "printing_method", "Field required">>

\* load_problem_data: the files are parsed, then ProblemData is built and
\* cross-validated
load_problem_data(files) ==
    IF load_costs_from_csv(files.costs) # <<>> THEN load_costs_from_csv(files.costs)
    ELSE ProblemDataValidation(files)

----------------------------------------------------------------------------
(* The output file and the scripts that read it *)

\* the fields of an Assignment _save_results writes
SavedAssignment(a) ==
    [book_id |-> a.book_id, supplier_id |-> a.supplier_id,
     production_volume |-> a.production_volume, unit_cost |-> a.unit_cost,
     total_cost |-> a.total_cost]

\* results_dict of _save_results (solve_time_seconds is not represented)
_save_results(r) ==
    [status |-> r.status, objective_value |-> r.objective_value,
     total_books |-> r.total_books, total_volume |-> r.total_volume,
     assignments |-> [i \in DOMAIN r.assignments |-> SavedAssignment(r.assignments[i])],
     supplier_utilization |-> r.supplier_utilization]

\* the fields Assignment requires
AssignmentFields ==
    {"book_id", "supplier_id", "printing_method", "production_volume",
     "unit_cost", "total_cost"}

\* OptimizationResult(**result_dict): every assignment must carry every
\* required field
OptimizationResultFromDict(dict) ==
    IF \A i \in DOMAIN dict.assignments :
          AssignmentFields \subseteq DOMAIN dict.assignments[i]
    THEN [state |-> "loaded", assignments |-> dict.assignments]
    ELSE [state |-> "error", assignments |-> <<>>]

\* assignments.get(book_id): the supplier of the last entry for the book,
\* NoKit standing for None
AuditSupplier(solution, book_id) ==
    LET hits == {i \in DOMAIN solution.assignments :
                    solution.assignments[i].book_id = book_id}
    IN IF hits = {} THEN NoKit
       ELSE solution.assignments[CHOOSE i \in hits : \A j \in hits : j <= i].supplier_id

\* the books that add an item: an assigned standalone book, or the first
\* assigned book of a kit not yet in processed_kits
AuditItemBooks(books, solution) ==
    {i \in DOMAIN books :
        /\ AuditSupplier(solution, books[i].id) # NoKit
        /\ \/ books[i].kit_id = NoKit
           \/ \A j \in 1 .. (i - 1) :
                 \/ books[j].kit_id # books[i].kit_id
                 \/ AuditSupplier(solution, books[j].id) = NoKit}

\* len(brand_supplier_items[brand][supplier])
AuditItemCount(books, solution, brand, supplier_id) ==
    Cardinality({i \in AuditItemBooks(books, solution) :
                    /\ books[i].brand = brand
                    /\ AuditSupplier(solution, books[i].id) = supplier_id})

\* verify_brand_constraint: TRUE when no (brand, supplier) exceeds the limit
verify_brand_constraint(books, solution, max_items_per_brand) ==
    \A i \in DOMAIN books, j \in DOMAIN solution.assignments :
        AuditItemCount(books, solution, books[i].brand,
                       solution.assignments[j].supplier_id) <= max_items_per_brand

----------------------------------------------------------------------------
(* Operations *)

\* nothing reloaded yet
NotReloaded == [state |-> "none", assignments |-> <<>>]

\* the command-line run has written nothing and has not exited; outputs
\* holds the choices for --output
CliIdle(outputs) ==
    /\ output_file \in outputs
    /\ saved = <<>>
    /\ exit_code = -1
    /\ audit = "none"
    /\ reloaded = NotReloaded

\* solver = SupplierAllocationSolver(data)
Constructed(instances) ==
    /\ data \in instances
    /\ pc = "constructed"
    /\ x = {}
    /\ model = EmptyModel
    /\ error = <<>>
    /\ solver_calls = 0
    /\ result = <<>>
    /\ CliIdle({FALSE})

\* solver.build_model() returning normally
BuildModel ==
    /\ pc = "constructed"
    /\ FirstUnassignable(data, _create_variables(data)) = 0
    /\ x' = _create_variables(data)
    /\ model' = BuiltModel(data, _create_variables(data))
    /\ pc' = "built"
    /\ UNCHANGED <<data, error, solver_calls, result>>
    /\ UNCHANGED cli

\* solver.build_model() raising on the first book without a candidate variable
BuildModelRaises ==
    /\ pc = "constructed"
    /\ FirstUnassignable(data, _create_variables(data)) # 0
    /\ x' = _create_variables(data)
    /\ model' = PartialModel(data, _create_variables(data))
    /\ error' = UnassignableError(
                    data.books[FirstUnassignable(data, _create_variables(data))].id)
    /\ pc' = "build_error"
    /\ UNCHANGED <<data, solver_calls, result>>
    /\ UNCHANGED cli

\* mutant: the solver is run a second time when the first run ends UNKNOWN
Solve_RetriesOnUnknown ==
    /\ pc = "built"
    /\ \E first \in SolverOutcomes(model, x), second \in SolverOutcomes(model, x) :
          /\ result' = SolveResult(data, model, x,
                                   IF first.status = "UNKNOWN" THEN second ELSE first)
          /\ solver_calls' = solver_calls + (IF first.status = "UNKNOWN" THEN 2 ELSE 1)
    /\ pc' = "solved"
    /\ UNCHANGED <<data, x, model, error>>
    /\ UNCHANGED cli

\* result = solver.solve()
Solve ==
    /\ pc = "built"
    /\ \E outcome \in SolverOutcomes(model, x) :
          result' = SolveResult(data, model, x, outcome)
    /\ solver_calls' = solver_calls + 1
    /\ pc' = "solved"
    /\ UNCHANGED <<data, x, model, error>>
    /\ UNCHANGED cli

Next == BuildModel \/ BuildModelRaises \/ Solve

\* the loaded lists, before ProblemData is built from them
Unvalidated(instances) ==
    /\ data \in instances
    /\ pc = "unvalidated"
    /\ x = {}
    /\ model = EmptyModel
    /\ error = <<>>
    /\ solver_calls = 0
    /\ result = <<>>
    /\ CliIdle({FALSE})

\* ProblemData(...) and _validate_problem_data(problem_data) both return
ValidateProblemData ==
    /\ pc = "unvalidated"
    /\ ProblemDataValidation(data) = <<>>
    /\ pc' = "validated"
    /\ UNCHANGED <<data, x, model, error, solver_calls, result>>
    /\ UNCHANGED cli

\* ProblemData(...) or _validate_problem_data(problem_data) raises
ValidateProblemDataRaises ==
    /\ pc = "unvalidated"
    /\ ProblemDataValidation(data) # <<>>
    /\ error' = ProblemDataValidation(data)
    /\ pc' = "validation_error"
    /\ UNCHANGED <<data, x, model, solver_calls, result>>
    /\ UNCHANGED cli

NextValidate == ValidateProblemData \/ ValidateProblemDataRaises

\* the solve command starts: the input files hold the given lists
Started(instances) ==
    /\ data \in instances
    /\ pc = "start"
    /\ x = {}
    /\ model = EmptyModel
    /\ error = <<>>
    /\ solver_calls = 0
    /\ result = <<>>
    /\ CliIdle(BOOLEAN)

\* data = DataLoader.load_problem_data(...) returns, and the solver object
\* is constructed from it
LoadProblemData ==
    /\ pc = "start"
    /\ load_problem_data(data) = <<>>
    /\ pc' = "constructed"
    /\ UNCHANGED <<data, x, model, error, solver_calls, result>>
    /\ UNCHANGED cli

\* DataLoader.load_problem_data(...) raises
LoadProblemDataRaises ==
    /\ pc = "start"
    /\ load_problem_data(data) # <<>>
    /\ error' = load_problem_data(data)
    /\ pc' = "load_error"
    /\ UNCHANGED <<data, x, model, solver_calls, result>>
    /\ UNCHANGED cli

\* mutant: the error is printed and the command returns normally
Abort_ReturnsNormally ==
    /\ pc \in {"load_error", "build_error"}
    /\ exit_code' = 0
    /\ pc' = "exited"
    /\ UNCHANGED <<data, x, model, error, solver_calls, result>>
    /\ UNCHANGED <<output_file, saved, audit, reloaded>>

\* except Exception: the error is printed and the command exits with code 1
Abort ==
    /\ pc \in {"load_error", "build_error"}
    /\ exit_code' = 1
    /\ pc' = "exited"
    /\ UNCHANGED <<data, x, model, error, solver_calls, result>>
    /\ UNCHANGED <<output_file, saved, audit, reloaded>>

\* mutant: a result without a solution is treated as a failure
DisplayAndSave_FailsWithoutSolution ==
    /\ pc = "solved"
    /\ saved' = IF output_file /\ result.assignments # <<>>
               THEN _save_results(result) ELSE <<>>
    /\ exit_code' = IF result.assignments # <<>> THEN 0 ELSE 1
    /\ pc' = "exited"
    /\ UNCHANGED <<data, x, model, error, solver_calls, result>>
    /\ UNCHANGED <<output_file, audit, reloaded>>

\* _display_results, then _save_results when --output was given; the command
\* returns
DisplayAndSave ==
    /\ pc = "solved"
    /\ saved' = IF output_file THEN _save_results(result) ELSE <<>>
    /\ exit_code' = 0
    /\ pc' = "exited"
    /\ UNCHANGED <<data, x, model, error, solver_calls, result>>
    /\ UNCHANGED <<output_file, audit, reloaded>>

\* verify_brand_constraint run on the books file and the written solution,
\* with the configured ceiling as max_items_per_brand
Audit ==
    /\ pc = "exited" /\ exit_code = 0 /\ output_file
    /\ audit = "none"
    /\ audit' = IF verify_brand_constraint(
                      data.books, saved, data.config.max_volumes_per_brand_per_supplier)
                THEN "ok" ELSE "violation"
    /\ UNCHANGED <<data, pc, x, model, error, solver_calls, result>>
    /\ UNCHANGED <<output_file, saved, exit_code, reloaded>>

\* export_results.py: the written solution is read back into an
\* OptimizationResult
Reload ==
    /\ pc = "exited" /\ exit_code = 0 /\ output_file
    /\ reloaded.state = "none"
    /\ reloaded' = OptimizationResultFromDict(saved)
    /\ UNCHANGED <<data, pc, x, model, error, solver_calls, result>>
    /\ UNCHANGED <<output_file, saved, exit_code, audit>>

\* the solve command, and the scripts run on its output file
NextCli ==
    \/ LoadProblemData \/ LoadProblemDataRaises
    \/ BuildModel \/ BuildModelRaises \/ Solve
    \/ DisplayAndSave \/ Abort
    \/ Audit \/ Reload

----------------------------------------------------------------------------
(* Problem instances *)

BookIds == {"b1", "b2"}

\* every capacity map over the given methods
CapacityMaps(methods) ==
    UNION {[dom -> 1 .. MaxCapacity] : dom \in SUBSET methods}

\* no kit, a single-book kit, or one kit holding both books in either order
KitChoices == {<<>>, <<"b1">>, <<"b1", "b2">>, <<"b2", "b1">>}

KitsOf(k) == IF k = <<>> THEN <<>> ELSE <<Kit("k1", k)>>

KitIdOf(id, k) == IF id \in Range(k) THEN "k1" ELSE NoKit

\* whole-currency prices: each book is cheaper at "its own" supplier
StructCost(book_id, supplier_id) ==
    CostDenominator * (IF (book_id = "b1") = (supplier_id = "s1") THEN 1 ELSE 2)

\* two single-method books, two suppliers; volumes, brands, kit, capacities,
\* the priced (book, supplier) pairs and the brand ceiling vary
StructInstances ==
    {ProblemData(
        <<Book("b1", "A", v1, <<"m1">>, KitIdOf("b1", k)),
          Book("b2", brand2, v2, <<"m1">>, KitIdOf("b2", k))>>,
        KitsOf(k),
        <<Supplier("s1", c1), Supplier("s2", c2)>>,
        {Cost(p[1], p[2], "m1", StructCost(p[1], p[2])) : p \in priced},
        OptimizationConfig(ceiling, sym)) :
        v1 \in 1 .. MaxVolume, v2 \in 1 .. MaxVolume, brand2 \in {"A", "B"},
        k \in KitChoices, c1 \in CapacityMaps({"m1"}), c2 \in CapacityMaps({"m1"}),
        priced \in SUBSET (BookIds \X {"s1", "s2"}),
        ceiling \in 1 .. MaxCeiling, sym \in {FALSE}}

Init == Constructed(StructInstances)

Spec == Init /\ [][Next]_vars

\* whole-currency prices that depend on the method only
MethodCost(method) == CostDenominator * (IF method = "m1" THEN 2 ELSE 1)

\* capacity maps with room for every book: both methods, or "m1" alone
AmpleCapacityMaps ==
    {[m \in dom |-> 2 * MaxVolume] : dom \in {{"m1", "m2"}, {"m1"}}}

\* book b1 can use both methods, book b2 only "m1"; any subset of the
\* (book, supplier, method) triples is priced; symmetry breaking on or off
MethodInstances ==
    {ProblemData(
        <<Book("b1", "A", v1, <<"m1", "m2">>, KitIdOf("b1", k)),
          Book("b2", "A", v2, <<"m1">>, KitIdOf("b2", k))>>,
        KitsOf(k),
        <<Supplier("s1", c1), Supplier("s2", c2)>>,
        {Cost(t[1], t[2], t[3], MethodCost(t[3])) : t \in priced},
        OptimizationConfig(MaxCeiling, sym)) :
        v1 \in 1 .. MaxVolume, v2 \in 1 .. MaxVolume,
        k \in {<<>>, <<"b1", "b2">>},
        c1 \in AmpleCapacityMaps, c2 \in AmpleCapacityMaps,
        priced \in SUBSET (BookIds \X {"s1", "s2"} \X {"m1", "m2"}),
        sym \in BOOLEAN}

InitMethods == Constructed(MethodInstances)

SpecMethods == InitMethods /\ [][Next]_vars

\* prices of 1 currency unit plus a fraction of the 1/1000 scale unit
FractionalCosts == {CostDenominator + k : k \in 0 .. (SubUnits - 1)}

\* every price function over a subset of the (book, supplier) pairs
PriceTables ==
    UNION {[dom -> FractionalCosts] : dom \in SUBSET (BookIds \X {"s1", "s2"})}

\* two single-method books of different brands, ample capacity; the prices
\* carry fractions the integer scaling cannot represent
CostInstances ==
    {ProblemData(
        <<Book("b1", "A", v1, <<"m1">>, KitIdOf("b1", k)),
          Book("b2", "B", v2, <<"m1">>, KitIdOf("b2", k))>>,
        KitsOf(k),
        <<Supplier("s1", [m \in {"m1"} |-> 2 * MaxVolume]),
          Supplier("s2", [m \in {"m1"} |-> 2 * MaxVolume])>>,
        {Cost(p[1], p[2], "m1", prices[p]) : p \in DOMAIN prices},
        OptimizationConfig(MaxCeiling, FALSE)) :
        v1 \in 1 .. MaxVolume, v2 \in 1 .. MaxVolume,
        k \in {<<>>, <<"b1", "b2">>},
        prices \in PriceTables}

InitCost == Constructed(CostInstances)

SpecCost == InitCost /\ [][Next]_vars

\* the fractional-price instances, and the instance without any book
CostOrEmptyInstances ==
    CostInstances
    \cup {ProblemData(<<>>, <<>>,
                      <<Supplier("s1", [m \in {"m1"} |-> 2 * MaxVolume]),
                        Supplier("s2", [m \in {"m1"} |-> 2 * MaxVolume])>>,
                      {}, OptimizationConfig(MaxCeiling, FALSE))}

InitCostOrEmpty == Constructed(CostOrEmptyInstances)

SpecCostOrEmpty == InitCostOrEmpty /\ [][Next]_vars

\* prices of one or two currency units plus a fraction of the scale unit
ScenarioCosts == {CostDenominator * w + k : w \in 1 .. 2, k \in 0 .. (SubUnits - 1)}

\* one book, one supplier, one method and at most one cost entry; volume,
\* capacity, price, ceiling and the symmetry switch vary
ScenarioAInstances ==
    {ProblemData(
        <<Book("b1", "A", v, <<"m1">>, NoKit)>>,
        <<>>,
        <<Supplier("s1", [m \in {"m1"} |-> c])>>,
        {Cost("b1", "s1", "m1", u) : u \in priced},
        OptimizationConfig(ceiling, sym)) :
        v \in 1 .. MaxVolume, c \in 1 .. MaxCapacity,
        priced \in {{}} \cup {{u} : u \in ScenarioCosts},
        ceiling \in 1 .. MaxCeiling, sym \in BOOLEAN}

InitScenarioA == Constructed(ScenarioAInstances)

SpecScenarioA == InitScenarioA /\ [][Next]_vars

\* the default of max_volumes_per_brand_per_supplier
DefaultCeiling == 4

ScenarioBookIds == <<"b1", "b2", "b3", "b4", "b5">>

\* the books a supplier prices: all of them, the first only, or none
PricingModes == {"all", "first", "none"}

PricedBy(mode) ==
    CASE mode = "all" -> Range(ScenarioBookIds)
      [] mode = "first" -> {ScenarioBookIds[1]}
      [] OTHER -> {}

\* one more standalone book of one brand than the default ceiling allows at
\* a supplier, unit volumes; three suppliers with room for all the books:
\* "s1" prices the first book or none, "s2" and "s3" price all or none;
\* symmetry breaking on or off
ScenarioCInstances ==
    {ProblemData(
        [i \in 1 .. (DefaultCeiling + 1) |->
            Book(ScenarioBookIds[i], "A", 1, <<"m1">>, NoKit)],
        <<>>,
        [j \in 1 .. 3 |->
            Supplier(<<"s1", "s2", "s3">>[j], [m \in {"m1"} |-> DefaultCeiling + 1])],
        UNION {{Cost(id, "s1", "m1", CostDenominator) : id \in PricedBy(mode1)},
               {Cost(id, "s2", "m1", CostDenominator * level2) : id \in PricedBy(mode2)},
               {Cost(id, "s3", "m1", CostDenominator) : id \in PricedBy(mode3)}},
        OptimizationConfig(DefaultCeiling, sym)) :
        mode1 \in PricingModes \ {"all"}, mode2 \in PricingModes \ {"first"},
        mode3 \in PricingModes \ {"first"}, level2 \in 1 .. 2, sym \in BOOLEAN}

InitScenarioC == Constructed(ScenarioCInstances)

SpecScenarioC == InitScenarioC /\ [][Next]_vars

\* the sequences of at most two members of S, repetitions included
UpToTwo(S) == {<<>>} \cup {<<a>> : a \in S} \cup {<<a, b>> : a \in S, b \in S}

\* loaded lists, sound or not: repeated ids, kits naming the unknown book
\* "b3", kit_id set or unset whatever the kits say, cost entries for unknown
\* books and suppliers or for a method the book or the supplier lacks
UnvalidatedInstances ==
    {ProblemData(books, kits, suppliers, costs, OptimizationConfig(MaxCeiling, TRUE)) :
        books \in UpToTwo({Book("b1", "A", 1, <<"m1">>, NoKit),
                           Book("b1", "A", 1, <<"m1">>, "k1"),
                           Book("b2", "A", 1, <<"m1">>, NoKit)}),
        kits \in UpToTwo({Kit("k1", <<"b1">>), Kit("k1", <<"b1", "b2">>),
                          Kit("k2", <<"b1">>), Kit("k2", <<"b3">>)}),
        suppliers \in UpToTwo({Supplier("s1", [m \in {"m1"} |-> MaxCapacity]),
                               Supplier("s2", [m \in {"m2"} |-> MaxCapacity])}),
        costs \in SUBSET {Cost(t[1], t[2], t[3], CostDenominator) :
                             t \in {<<"b1", "s1", "m1">>, <<"b1", "s1", "m2">>,
                                    <<"b2", "s2", "m1">>, <<"b3", "s1", "m1">>,
                                    <<"b1", "s3", "m1">>}}}

InitValidate == Unvalidated(UnvalidatedInstances)

SpecValidate == InitValidate /\ [][NextValidate]_vars

\* input files for the solve command: the loaded lists with the one
\* supplier "s1"
FileInstances ==
    {d \in UnvalidatedInstances : Len(d.suppliers) = 1 /\ d.suppliers[1].id = "s1"}

\* problem data handed to the solver object: two unit-volume books, one
\* method, two suppliers with room for both; brands, kit, priced pairs and
\* ceiling vary
CliInstances ==
    {ProblemData(
        <<Book("b1", "A", 1, <<"m1">>, KitIdOf("b1", k)),
          Book("b2", brand2, 1, <<"m1">>, KitIdOf("b2", k))>>,
        KitsOf(k),
        <<Supplier("s1", [m \in {"m1"} |-> MaxCapacity]),
          Supplier("s2", [m \in {"m1"} |-> MaxCapacity])>>,
        {Cost(p[1], p[2], "m1", StructCost(p[1], p[2])) : p \in priced},
        OptimizationConfig(ceiling, FALSE)) :
        brand2 \in {"A", "B"}, k \in KitChoices,
        priced \in SUBSET (BookIds \X {"s1", "s2"}),
        ceiling \in 1 .. MaxCeiling}

\* a run of the solve command from its input files, or its continuation
\* from the solver object for problem data supplied in memory
InitCli ==
    \/ Started(FileInstances)
    \/ /\ data \in CliInstances
       /\ pc = "constructed"
       /\ x = {}
       /\ model = EmptyModel
       /\ error = <<>>
       /\ solver_calls = 0
       /\ result = <<>>
       /\ CliIdle(BOOLEAN)

SpecCli == InitCli /\ [][NextCli]_vars

\* three suppliers with one capacity map: s1 and s2 charge the same price
\* for whatever they price, s3 charges that price or a higher one; symmetry
\* breaking is on
SymmetrySupplierIds == <<"s1", "s2", "s3">>

SymmetryInstances ==
    {ProblemData(
        <<Book("b1", "A", 1, <<"m1">>, NoKit),
          Book("b2", "B", v2, <<"m1">>, NoKit)>>,
        <<>>,
        [i \in 1 .. 3 |-> Supplier(SymmetrySupplierIds[i], [m \in {"m1"} |-> MaxCapacity])],
        {Cost(p[1], p[2], "m1", IF p[2] = "s3" THEN third ELSE 2 * CostDenominator) :
            p \in priced},
        OptimizationConfig(MaxCeiling, TRUE)) :
        v2 \in 1 .. MaxVolume,
        priced \in SUBSET (BookIds \X Range(SymmetrySupplierIds)),
        third \in {2 * CostDenominator, 3 * CostDenominator}}

InitSymmetry == Constructed(SymmetryInstances)

SpecSymmetry == InitSymmetry /\ [][Next]_vars

----------------------------------------------------------------------------
(* Properties.  Observations on the returned OptimizationResult and the     *)
(* notions of the design document they are compared with.                   *)

HasSolution == pc = "solved" /\ result.status \in {"OPTIMAL", "FEASIBLE"}

\* the Assignments of one book
AssignmentsOf(book_id) ==
    {i \in DOMAIN result.assignments : result.assignments[i].book_id = book_id}

\* the suppliers the result gives to one book
SuppliersOf(book_id) ==
    {result.assignments[i].supplier_id : i \in AssignmentsOf(book_id)}

\* sum of total_cost over the Assignments (numerator over CostDenominator)
TotalCostOfAssignments ==
    SeqSum([i \in DOMAIN result.assignments |-> result.assignments[i].total_cost])

\* the (supplier, method) pairs a book may legally be given: a cost entry
\* exists and the method is one of the book's
Candidates(d, b) ==
    {p \in SupplierIds(d) \X Range(b.available_printing_methods) :
        \E c \in d.costs : /\ c.book_id = b.id
                           /\ c.supplier_id = p[1]
                           /\ c.printing_method = p[2]}

BooksOf(d) == Range(d.books)

BookById(d, id) == CHOOSE b \in BooksOf(d) : b.id = id

\* an allocation gives every book exactly one of its candidates
Allocations(d) ==
    {a \in [{b.id : b \in BooksOf(d)} -> SupplierIds(d) \X {"m1", "m2"}] :
        \A b \in BooksOf(d) : a[b.id] \in Candidates(d, b)}

AllocCohesive(d, a) ==
    \A kit \in Range(d.kits) :
        \A i, j \in DOMAIN kit.book_ids :
            a[kit.book_ids[i]][1] = a[kit.book_ids[j]][1]

AllocVolume(d, a, supplier_id, method) ==
    SumFn([id \in DOMAIN a |-> BookById(d, id).production_volume],
          {id \in DOMAIN a : a[id] = <<supplier_id, method>>})

\* every book sits on a (supplier, method) with a declared capacity, and no
\* declared capacity is exceeded
AllocWithinCapacity(d, a) ==
    /\ \A id \in DOMAIN a : \A s \in Range(d.suppliers) :
          s.id = a[id][1] => a[id][2] \in DOMAIN s.capacities
    /\ \A s \in Range(d.suppliers) :
          \A m \in DOMAIN s.capacities :
              AllocVolume(d, a, s.id, m) <= s.capacities[m]

\* books of a brand at a supplier
AllocBookCount(d, a, brand, supplier_id) ==
    Cardinality({b \in BooksOf(d) : b.brand = brand /\ a[b.id][1] = supplier_id})

\* items of a brand at a supplier: standalone books plus distinct kits
AllocItemCount(d, a, brand, supplier_id) ==
    Cardinality({b \in BooksOf(d) :
                    /\ b.brand = brand
                    /\ a[b.id][1] = supplier_id
                    /\ b.kit_id = NoKit})
    + Cardinality({kit \in Range(d.kits) :
                    \E id \in Range(kit.book_ids) :
                        /\ BookById(d, id).brand = brand
                        /\ a[id][1] = supplier_id})

\* unit_cost * production_volume summed over the books (numerator)
AllocCost(d, a) ==
    SumFn([id \in DOMAIN a |->
              (CHOOSE c \in d.costs :
                  /\ c.book_id = id
                  /\ c.supplier_id = a[id][1]
                  /\ c.printing_method = a[id][2]).unit_cost
              * BookById(d, id).production_volume],
          DOMAIN a)

\* satisfies uniqueness, kit cohesion, the per-book brand cap and capacity
AllocAdmissible(d, a) ==
    /\ AllocCohesive(d, a)
    /\ AllocWithinCapacity(d, a)
    /\ \A b \in BooksOf(d) : \A s \in SupplierIds(d) :
          AllocBookCount(d, a, b.brand, s)
              <= d.config.max_volumes_per_brand_per_supplier

\* C1: in every OPTIMAL or FEASIBLE result all member books of a kit with
\* at least two books carry the same supplier id, whatever the cost table.
C1_KitMembersShareSupplier ==
    HasSolution =>
        \A kit \in Range(data.kits) :
            Len(kit.book_ids) >= 2 =>
                Cardinality(UNION {SuppliersOf(id) : id \in Range(kit.book_ids)}) <= 1

\* C2: in every OPTIMAL or FEASIBLE result every book of the ProblemData
\* appears in exactly one Assignment, and there is no other Assignment.
C2_EveryBookAssignedOnce ==
    HasSolution =>
        /\ \A b \in BooksOf(data) : Cardinality(AssignmentsOf(b.id)) = 1
        /\ Len(result.assignments) = Len(data.books)

\* a result for books that each had a choice of at least two candidates
C2_Witness ==
    /\ HasSolution
    /\ \A b \in BooksOf(data) : Cardinality(Candidates(data, b)) >= 2
    /\ \A b \in BooksOf(data) : Cardinality(AssignmentsOf(b.id)) = 1

\* C3: in every OPTIMAL or FEASIBLE result, for every (supplier, method)
\* with a declared capacity, the production volume assigned to the pair is
\* at most that capacity.
C3_CapacityRespected ==
    HasSolution =>
        \A s \in Range(data.suppliers) :
            \A m \in DOMAIN s.capacities :
                volume_used(result.assignments, s.id, m) <= s.capacities[m]

\* a result where both books are priced at a supplier whose declared
\* capacity cannot hold both, and that supplier is used
C3_Witness ==
    /\ HasSolution
    /\ \E s \in Range(data.suppliers) : \E m \in DOMAIN s.capacities :
          /\ \A b \in BooksOf(data) : <<s.id, m>> \in Candidates(data, b)
          /\ SeqSum([i \in DOMAIN data.books |-> data.books[i].production_volume])
                > s.capacities[m]
          /\ volume_used(result.assignments, s.id, m) > 0

\* C4: for a feasible instance, the model built with symmetry breaking has
\* the same optimal objective value as the model built without it (and is
\* not infeasible).
C4_SymmetryKeepsOptimum ==
    (pc = "built" /\ data.config.enable_symmetry_breaking) =>
        LET plain == BuiltModel([data EXCEPT !.config.enable_symmetry_breaking = FALSE], x)
            without == Feasible(plain, x)
            with == Feasible(model, x)
        IN without # {} =>
              /\ with # {}
              /\ {ObjectiveValue(model, o) : o \in Minimal(model, with)}
                    = {ObjectiveValue(plain, o) : o \in Minimal(plain, without)}

\* C5: in every OPTIMAL or FEASIBLE result, for every brand and supplier,
\* the number of books of the brand assigned to the supplier is at most
\* max_volumes_per_brand_per_supplier.
C5_BrandCapPerBook ==
    HasSolution =>
        \A b \in BooksOf(data) : \A s \in SupplierIds(data) :
            Cardinality({i \in DOMAIN result.assignments :
                            /\ BookById(data, result.assignments[i].book_id).brand = b.brand
                            /\ result.assignments[i].supplier_id = s})
                <= data.config.max_volumes_per_brand_per_supplier

\* a result for two books of one brand, both priced at one supplier that
\* could hold both, under a ceiling of 1
C5_Witness ==
    /\ HasSolution
    /\ data.config.max_volumes_per_brand_per_supplier = 1
    /\ \A b \in BooksOf(data) : b.brand = "A"
    /\ \E s \in Range(data.suppliers) : \E m \in DOMAIN s.capacities :
          /\ \A b \in BooksOf(data) : <<s.id, m>> \in Candidates(data, b)
          /\ SeqSum([i \in DOMAIN data.books |-> data.books[i].production_volume])
                <= s.capacities[m]

\* C6: the brand cap counts items, a kit counting once: whenever some
\* allocation satisfies uniqueness, kit cohesion, capacity and the ceiling
\* on standalone books plus kits per (brand, supplier), the solve does not
\* report INFEASIBLE.
C6_KitCountsAsOneItem ==
    (pc = "solved" /\ \E a \in Allocations(data) :
        /\ AllocCohesive(data, a)
        /\ AllocWithinCapacity(data, a)
        /\ \A b \in BooksOf(data) : \A s \in SupplierIds(data) :
              AllocItemCount(data, a, b.brand, s)
                  <= data.config.max_volumes_per_brand_per_supplier)
    => result.status # "INFEASIBLE"

\* C7: when the status is OPTIMAL, no allocation satisfying uniqueness, kit
\* cohesion, the brand cap and capacity costs strictly less than the sum
\* of total_cost over the returned Assignments.
C7_NoCheaperAllocation ==
    (pc = "solved" /\ result.status = "OPTIMAL") =>
        \A a \in Allocations(data) :
            AllocAdmissible(data, a) => AllocCost(data, a) >= TotalCostOfAssignments

\* |objective_value - sum of total_cost|, times ScaleFactor * CostDenominator
ObjectiveGap ==
    LET scaled == result.objective_value[1] * CostDenominator
        exact == TotalCostOfAssignments * ScaleFactor
    IN IF scaled >= exact THEN scaled - exact ELSE exact - scaled

\* C8 (as stated): in every OPTIMAL or FEASIBLE result objective_value
\* differs from the sum of total_cost by at most 0.001, for any number of
\* books.
C8_ObjectiveWithinOneUnit ==
    HasSolution => ObjectiveGap <= CostDenominator

\* C8 (amended): in every OPTIMAL or FEASIBLE result objective_value
\* differs from the sum of total_cost by at most 0.001 times the number of
\* books.
C8_ObjectiveWithinOneUnitPerBook ==
    HasSolution => ObjectiveGap <= CostDenominator * Len(data.books)

\* a result whose two scaled coefficients both lost a fraction
C8_Witness ==
    /\ HasSolution
    /\ Len(result.assignments) = 2
    /\ ObjectiveGap > CostDenominator

\* a book none of whose available methods has a declared capacity at a
\* supplier pricing the book with that method
NoCapacityAnywhere(d, b) ==
    \A p \in Candidates(d, b) :
        \A s \in Range(d.suppliers) : s.id = p[1] => p[2] \notin DOMAIN s.capacities

\* C9: if a book has no declared capacity at any supplier pricing it,
\* build_model fails with the unassignable-book error before the solver is
\* invoked, and the book is never assigned.
C9_NoCapacityFailsBuild ==
    (pc # "constructed" /\ \E b \in BooksOf(data) : NoCapacityAnywhere(data, b)) =>
        /\ pc = "build_error"
        /\ solver_calls = 0
        /\ \E b \in BooksOf(data) :
              NoCapacityAnywhere(data, b) /\ error = UnassignableError(b.id)

\* C10: if some book has no (supplier, method) with a cost entry and a
\* method of the book, build_model raises an error naming such a book (the
\* first in input order), before any solver invocation and without a result.
C10_UnassignableBookRaises ==
    (pc # "constructed" /\ \E b \in BooksOf(data) : Candidates(data, b) = {}) =>
        /\ pc = "build_error"
        /\ solver_calls = 0
        /\ result = <<>>
        /\ \E i \in DOMAIN data.books :
              /\ Candidates(data, data.books[i]) = {}
              /\ \A j \in 1 .. (i - 1) : Candidates(data, data.books[j]) # {}
              /\ error = UnassignableError(data.books[i].id)

\* build_model raised on a book that has cost entries, all of them for a
\* method the book cannot use
C10_Witness ==
    /\ pc = "build_error"
    /\ \E b \in BooksOf(data) :
          /\ error = UnassignableError(b.id)
          /\ Candidates(data, b) = {}
          /\ \E c \in data.costs : c.book_id = b.id

\* the (book, supplier, method) triples that have a cost entry and whose
\* method is one of the book's available methods
PricedTriples(d) ==
    UNION {{<<b.id, p[1], p[2]>> : p \in Candidates(d, b)} : b \in BooksOf(d)}

\* C11: once build_model has created the variables, a decision variable
\* exists for exactly the (book, supplier, method) triples that have a Cost
\* entry and whose method is one of the book's available methods; and every
\* Assignment of a result is such a triple.
C11_VariablesAreThePricedTriples ==
    /\ pc # "constructed" => x = PricedTriples(data)
    /\ HasSolution =>
          \A i \in DOMAIN result.assignments :
             LET a == result.assignments[i]
             IN <<a.book_id, a.supplier_id, a.printing_method>> \in PricedTriples(data)

\* a result was returned for data holding a cost entry for a method its book
\* cannot use; no variable exists for that entry
C11_Witness ==
    /\ HasSolution
    /\ result.assignments # <<>>
    /\ \E c \in data.costs :
          /\ c.printing_method \notin
                Range(BookById(data, c.book_id).available_printing_methods)
          /\ <<c.book_id, c.supplier_id, c.printing_method>> \notin x

\* C12: when the solver status is neither OPTIMAL nor FEASIBLE, solve returns
\* a result (no error is raised) carrying that status, a null objective
\* value, no assignments, zero total_books and total_volume, and an empty
\* supplier_utilization.
C12_NoSolutionResultIsEmpty ==
    (pc = "solved" /\ ~HasSolution) =>
        /\ error = <<>>
        /\ result.status \in {"INFEASIBLE", "UNKNOWN"}
        /\ result.objective_value = <<>>
        /\ result.assignments = <<>>
        /\ result.total_books = 0
        /\ result.total_volume = 0
        /\ result.supplier_utilization = <<>>

\* solve returned INFEASIBLE for a model that has no feasible valuation
C12_Witness ==
    /\ pc = "solved"
    /\ result.status = "INFEASIBLE"
    /\ Feasible(model, x) = {}
    /\ solver_calls = 1

\* validation raised one of the errors by which it rejects data
Rejected == pc = "validation_error" /\ error[1] \in {"ValueError", "ValidationError"}

\* the kits that list a book
KitsListing(d, book_id) ==
    {i \in DOMAIN d.kits : book_id \in Range(d.kits[i].book_ids)}

\* Book.kit_id and the kits' book_ids agree about every book, both ways
KitIdsConsistent(d) ==
    \A b \in BooksOf(d) :
        /\ b.kit_id # NoKit =>
              \E i \in KitsListing(d, b.id) : d.kits[i].id = b.kit_id
        /\ \A i \in KitsListing(d, b.id) : d.kits[i].id = b.kit_id

\* C13: data in which a Book's kit_id and the kits' membership lists disagree,
\* in either direction, is rejected by validation.
C13_KitIdMismatchRejected ==
    (pc # "unvalidated" /\ ~KitIdsConsistent(data)) => Rejected

\* a book has a cost entry for one of its methods at a supplier that
\* declares capacity for that method
Coverable(d, b) ==
    \E c \in d.costs, s \in Range(d.suppliers) :
        /\ c.book_id = b.id
        /\ c.supplier_id = s.id
        /\ c.printing_method \in Range(b.available_printing_methods)
        /\ c.printing_method \in DOMAIN s.capacities

\* C14: data in which some book has no cost entry for an available method at
\* a supplier declaring capacity for that method is rejected by validation.
C14_UncoverableBookRejected ==
    (pc # "unvalidated" /\ \E b \in BooksOf(data) : ~Coverable(data, b)) => Rejected

\* the structural faults: repeated ids, a kit naming an unknown book, a book
\* in two kits, a cost entry naming an unknown book or supplier
StructuralFault(d) ==
    \/ HasDuplicates(IdsOf(d.books))
    \/ HasDuplicates(IdsOf(d.kits))
    \/ HasDuplicates(IdsOf(d.suppliers))
    \/ \E i \in DOMAIN d.kits : ~(Range(d.kits[i].book_ids) \subseteq Range(IdsOf(d.books)))
    \/ \E b \in BooksOf(d) : Cardinality(KitsListing(d, b.id)) > 1
    \/ \E c \in d.costs : \/ c.book_id \notin Range(IdsOf(d.books))
                          \/ c.supplier_id \notin SupplierIds(d)

\* C15: every input with a structural fault is rejected: validation
\* raises a validation error and hands no ProblemData to the pipeline.
C15_StructuralFaultRejected ==
    (pc # "unvalidated" /\ StructuralFault(data)) => Rejected

\* rejected for the one fault of a book listed in two kits: ids are unique,
\* every reference resolves and every book has a cost entry
C15_Witness ==
    /\ Rejected
    /\ Len(error) > 3
    /\ error[4] = "appears in multiple kits"
    /\ \E b \in BooksOf(data) : Cardinality(KitsListing(data, b.id)) > 1
    /\ ~HasDuplicates(IdsOf(data.kits))

\* the suppliers that price the given books
SuppliersPricing(d, ids) ==
    {s \in SupplierIds(d) :
        \A id \in ids : \E c \in d.costs : c.book_id = id /\ c.supplier_id = s}

\* the suppliers that price at least one book
SuppliersPricingAny(d) == {c.supplier_id : c \in d.costs}

\* the books the result sends to a supplier
BooksAt(supplier_id) ==
    {i \in DOMAIN result.assignments : result.assignments[i].supplier_id = supplier_id}

\* C16 (Scenario C): five standalone books of one brand, ceiling 4.  If
\* exactly one supplier prices the books the solve yields no solution
\* (INFEASIBLE, or UNKNOWN when the time limit ends the search); if two or
\* more suppliers with room for the books price all of them, the model is not
\* INFEASIBLE and every result splits the books over at least two suppliers,
\* none of them receiving more than 4.
C16_ScenarioC ==
    LET all == SuppliersPricing(data, {b.id : b \in BooksOf(data)})
    IN pc = "solved" =>
          /\ (Cardinality(all) = 1 /\ SuppliersPricingAny(data) = all) =>
                ~HasSolution
          /\ Cardinality(all) >= 2 =>
                /\ result.status # "INFEASIBLE"
                /\ HasSolution =>
                      /\ Cardinality({s \in SupplierIds(data) : BooksAt(s) # {}}) >= 2
                      /\ \A s \in SupplierIds(data) :
                            Cardinality(BooksAt(s)) <= DefaultCeiling

\* the cheapest unit_cost x volume a supplier offers for a book
CheapestAt(d, b, supplier_id) ==
    MinOf({c.unit_cost * b.production_volume : c \in
              {e \in d.costs : /\ e.book_id = b.id
                               /\ e.supplier_id = supplier_id
                               /\ <<supplier_id, e.printing_method>> \in Candidates(d, b)}})

\* the combined cost of all the books at one supplier
CombinedCost(d, supplier_id) ==
    SumFn([b \in BooksOf(d) |-> CheapestAt(d, b, supplier_id)], BooksOf(d))

\* Scenario B: one kit holding the two books, both suppliers price both
\* books and declare capacity, enough for both books, for every method
ScenarioB(d) ==
    /\ Len(d.kits) = 1
    /\ Range(d.kits[1].book_ids) = {b.id : b \in BooksOf(d)}
    /\ Cardinality(BooksOf(d)) = 2
    /\ \A s \in Range(d.suppliers) :
          /\ \A b \in BooksOf(d) : \E p \in Candidates(d, b) : p[1] = s.id
          /\ \A b \in BooksOf(d) :
                Range(b.available_printing_methods) \subseteq DOMAIN s.capacities
          /\ \A m \in DOMAIN s.capacities :
                s.capacities[m] >= SumFn([b \in BooksOf(d) |-> b.production_volume],
                                         BooksOf(d))
    /\ d.config.max_volumes_per_brand_per_supplier >= 2

\* C17 (Scenario B): the two books of the kit go to the same supplier, and an
\* OPTIMAL result picks the supplier whose combined cost is lower.
C17_ScenarioB ==
    (ScenarioB(data) /\ HasSolution) =>
        \E s \in SupplierIds(data) :
            /\ \A b \in BooksOf(data) : SuppliersOf(b.id) = {s}
            /\ result.status = "OPTIMAL" =>
                  \A t \in SupplierIds(data) :
                     CombinedCost(data, s) <= CombinedCost(data, t)

\* Scenario A: the only book has its one cost entry at the only supplier,
\* whose capacity covers the book's volume
ScenarioA(d) ==
    /\ Len(d.books) = 1 /\ Len(d.suppliers) = 1 /\ d.kits = <<>>
    /\ Cardinality(d.costs) = 1
    /\ Candidates(d, d.books[1]) = {<<d.suppliers[1].id, "m1">>}
    /\ d.suppliers[1].capacities["m1"] >= d.books[1].production_volume

\* unit_cost x production_volume of the scenario (numerator over
\* CostDenominator)
ScenarioACost(d) ==
    (CHOOSE c \in d.costs : TRUE).unit_cost * d.books[1].production_volume

C19_AssignmentFields ==
    HasSolution =>
        \A i \in DOMAIN result.assignments :
           LET a == result.assignments[i]
               b == BookById(data, a.book_id)
           IN /\ a.production_volume = b.production_volume
              /\ \E c \in data.costs :
                    /\ c.book_id = a.book_id
                    /\ c.supplier_id = a.supplier_id
                    /\ c.printing_method = a.printing_method
                    /\ c.unit_cost = a.unit_cost
              /\ a.total_cost = a.unit_cost * b.production_volume

\* a result with two Assignments of volume above 1 whose unit costs differ
C19_Witness ==
    /\ HasSolution
    /\ Len(result.assignments) = 2
    /\ result.assignments[1].unit_cost # result.assignments[2].unit_cost
    /\ \A i \in DOMAIN result.assignments : result.assignments[i].production_volume > 1

\* the volume the result gives to one (supplier, method)
UsedVolume(supplier_id, method) ==
    LET at == {i \in DOMAIN result.assignments :
                  /\ result.assignments[i].supplier_id = supplier_id
                  /\ result.assignments[i].printing_method = method}
    IN SumFn([i \in at |-> result.assignments[i].production_volume], at)

\* C20: in an OPTIMAL or FEASIBLE result every supplier has an entry in
\* supplier_utilization, with one value per declared method, equal to
\* used / capacity x 100 over a non-zero capacity, and 0 where nothing is
\* assigned.
C20_UtilizationReport ==
    HasSolution =>
        /\ DOMAIN result.supplier_utilization = SupplierIds(data)
        /\ \A s \in Range(data.suppliers) :
              LET u == result.supplier_utilization[s.id]
              IN /\ DOMAIN u = DOMAIN s.capacities
                 /\ \A m \in DOMAIN s.capacities :
                       /\ u[m][2] # 0
                       /\ u[m][1] * s.capacities[m]
                             = UsedVolume(s.id, m) * 100 * u[m][2]
                       /\ UsedVolume(s.id, m) = 0 => u[m][1] = 0

\* a result that uses both methods at one supplier and nothing at the other
C20_Witness ==
    /\ HasSolution
    /\ \E s \in SupplierIds(data), t \in SupplierIds(data) :
          /\ UsedVolume(s, "m1") > 0 /\ UsedVolume(s, "m2") > 0
          /\ DOMAIN result.supplier_utilization[s] = {"m1", "m2"}
          /\ t # s
          /\ \A i \in DOMAIN result.assignments : result.assignments[i].supplier_id # t
          /\ DOMAIN result.supplier_utilization[t] # {}

\* the error is the one build_model raises
IsBuildError == \E b \in BooksOf(data) : error = UnassignableError(b.id)

\* the run has failed: an error is pending or the command exited on it
Failed == pc \in {"load_error", "build_error"} \/ (pc = "exited" /\ error # <<>>)

\* C21: in a run of the solve command a loading or validation error leaves
\* no decision variable created, and a build error leaves the solver
\* uninvoked; either way no result exists, nothing is written to the output
\* file, the next step is the exit, and the exit code is not zero.
C21_ErrorsAbortThePipeline ==
    /\ [](Failed =>
            /\ solver_calls = 0
            /\ result = <<>>
            /\ saved = <<>>
            /\ ~IsBuildError => x = {} /\ model = EmptyModel
            /\ pc = "exited" => exit_code # 0 /\ exit_code # -1)
    /\ [][(pc \in {"load_error", "build_error"}) => (pc' = "exited" /\ exit_code' # 0)]_vars

\* the command given --output exited on a build error
C21_Witness ==
    /\ pc = "exited"
    /\ output_file
    /\ IsBuildError
    /\ x # {}
    /\ exit_code = 1

\* the command returned after a solve
Finished == pc = "exited" /\ error = <<>>

\* C22: a run of the solve command whose solver status is INFEASIBLE or
\* UNKNOWN completes successfully: the exit code is 0 and, when --output was
\* given, the file holds that status and an empty assignment list.
C22_NoSolutionRunSucceeds ==
    (Finished /\ result.status \in {"INFEASIBLE", "UNKNOWN"}) =>
        /\ exit_code = 0
        /\ output_file =>
              /\ saved.status = result.status
              /\ saved.assignments = <<>>
              /\ saved.objective_value = <<>>

\* an INFEASIBLE run given --output has written its file
C22_Witness ==
    /\ Finished
    /\ result.status = "INFEASIBLE"
    /\ Feasible(model, x) = {}
    /\ output_file
    /\ exit_code = 0

----------------------------------------------------------------------------
\* C23: each solve() invokes the solver exactly once whatever status comes
\* back, UNKNOWN included: the call counter moves only in the step from
\* "built" to "solved", by one, and nothing runs the solver again afterwards;
\* a FEASIBLE status is returned as an ordinary result, with no error, an
\* objective value and one assignment per book.
C23_SolverInvokedOnce ==
    /\ [](pc = "solved" => (solver_calls = 1 /\ error = <<>>))
    /\ []((pc = "solved" /\ result.status = "FEASIBLE") => (result.objective_value # <<>> /\ Len(result.assignments) = Len(data.books)))
    /\ [][(solver_calls' # solver_calls) => (pc = "built" /\ pc' = "solved" /\ solver_calls' = solver_calls + 1)]_vars

\* a FEASIBLE result that is not an optimum, returned after one solver run
C23_Witness ==
    /\ pc = "solved" /\ result.status = "FEASIBLE"
    /\ solver_calls = 1
    /\ result.assignments # <<>>
    /\ \E o \in Feasible(model, x) :
          ObjectiveValue(model, o) < result.objective_value[1]

----------------------------------------------------------------------------
\* two suppliers with the same capacity map that price the same (book,
\* method) pairs, at least one, at the same unit costs
Interchangeable(d, s, t) ==
    /\ s.capacities = t.capacities
    /\ \E k \in DOMAIN cost_matrix(d) : k[2] = s.id
    /\ \A b \in BooksOf(d) : \A m \in Range(b.available_printing_methods) :
          /\ <<b.id, s.id, m>> \in DOMAIN cost_matrix(d)
                <=> <<b.id, t.id, m>> \in DOMAIN cost_matrix(d)
          /\ <<b.id, s.id, m>> \in DOMAIN cost_matrix(d)
                => cost_matrix(d)[<<b.id, s.id, m>>] = cost_matrix(d)[<<b.id, t.id, m>>]

\* total production volume the result assigns to a supplier
AssignedVolume(supplier_id) ==
    SeqSum([i \in DOMAIN result.assignments |->
               IF result.assignments[i].supplier_id = supplier_id
               THEN result.assignments[i].production_volume ELSE 0])

\* C24: with symmetry breaking enabled, two interchangeable suppliers that
\* follow one another in input order (no interchangeable supplier between
\* them) are ordered by volume in every OPTIMAL/FEASIBLE result: the first
\* gets at least as much as the second, whatever other suppliers with the
\* same capacity map charge.
C24_InterchangeableSuppliersOrdered ==
    (HasSolution /\ data.config.enable_symmetry_breaking) =>
        \A i \in DOMAIN data.suppliers, j \in DOMAIN data.suppliers :
            (/\ i < j
             /\ Interchangeable(data, data.suppliers[i], data.suppliers[j])
             /\ \A k \in (i + 1) .. (j - 1) :
                   ~Interchangeable(data, data.suppliers[i], data.suppliers[k]))
            => AssignedVolume(data.suppliers[i].id) >= AssignedVolume(data.suppliers[j].id)

----------------------------------------------------------------------------
\* C25: no Assignment of an OPTIMAL/FEASIBLE result uses a (supplier, method)
\* pair for which the supplier declares no capacity; every assigned pair
\* therefore has a row in the utilization table.
C25_AssignedPairsHaveCapacity ==
    HasSolution =>
        \A i \in DOMAIN result.assignments :
            \A s \in Range(data.suppliers) :
                s.id = result.assignments[i].supplier_id =>
                    /\ result.assignments[i].printing_method \in DOMAIN s.capacities
                    /\ result.assignments[i].printing_method
                          \in DOMAIN result.supplier_utilization[s.id]

----------------------------------------------------------------------------
\* the reference book of the kit has a candidate variable at every supplier
\* at which another member has one
ReferenceCoversMembers(d, xv, kit) ==
    \A i \in 2 .. Len(kit.book_ids) : \A s \in SupplierIds(d) :
        VarsAt(d, xv, kit.book_ids[i], s) # {} => VarsAt(d, xv, kit.book_ids[1], s) # {}

\* C26: when the reference book of a kit (its first member) has a candidate
\* variable at every supplier at which another member has one, every
\* OPTIMAL/FEASIBLE result assigns all members of the kit to the supplier of
\* the reference book; nothing ties their printing methods together.
C26_CoveredKitFollowsReference ==
    HasSolution =>
        \A kit \in Range(data.kits) :
            ReferenceCoversMembers(data, x, kit) =>
                \A i \in DOMAIN kit.book_ids :
                    SuppliersOf(kit.book_ids[i]) = SuppliersOf(kit.book_ids[1])

\* a two-book kit kept at one supplier with two different printing methods,
\* although the second member also had a candidate at the other supplier
C26_Witness ==
    /\ HasSolution
    /\ \E kit \in Range(data.kits) :
          /\ Len(kit.book_ids) = 2
          /\ ReferenceCoversMembers(data, x, kit)
          /\ \A s \in SupplierIds(data) : VarsAt(data, x, kit.book_ids[2], s) # {}
          /\ \E i \in AssignmentsOf(kit.book_ids[1]), j \in AssignmentsOf(kit.book_ids[2]) :
                /\ result.assignments[i].supplier_id = result.assignments[j].supplier_id
                /\ result.assignments[i].printing_method # result.assignments[j].printing_method

----------------------------------------------------------------------------
\* the input satisfies every validation condition: unique ids, kit
\* references that resolve and agree with Book.kit_id, cost entries naming
\* existing books and suppliers, every book priced
SatisfiesValidation(d) ==
    /\ ~StructuralFault(d)
    /\ KitIdsConsistent(d)
    /\ books_without_costs(d) = {}

\* C27: load_problem_data returns a ProblemData without raising for every
\* input that satisfies all validation conditions, inputs with a book and a
\* cost row included.
C27_ValidInputLoads ==
    SatisfiesValidation(data) => pc # "load_error"

----------------------------------------------------------------------------
\* the number of assignments that put a book of the brand at the supplier
AssignedBookCount(brand, supplier_id) ==
    Cardinality({i \in DOMAIN result.assignments :
                    /\ result.assignments[i].supplier_id = supplier_id
                    /\ BookById(data, result.assignments[i].book_id).brand = brand})

\* C28: a solution of the solver under ceiling c, written by the command,
\* passes the audit of verify_brand_constraint run with max_items_per_brand
\* = c: for every (brand, supplier) the audit's count of standalone books
\* plus kits is at most the solver's count of books, so the audit reports no
\* violation.
C28_AuditAcceptsSolverResult ==
    (pc = "exited" /\ output_file /\ exit_code = 0) =>
        /\ audit # "violation"
        /\ \A b \in BooksOf(data), s \in SupplierIds(data) :
              AuditItemCount(data.books, saved, b.brand, s) <= AssignedBookCount(b.brand, s)

\* the audit has accepted a solution in which a kit of two books of one
\* brand sits at one supplier: two books for the solver, one item for the
\* audit
C28_Witness ==
    /\ audit = "ok"
    /\ result.status \in {"OPTIMAL", "FEASIBLE"}
    /\ \E b \in BooksOf(data), s \in SupplierIds(data) :
          /\ AssignedBookCount(b.brand, s) = 2
          /\ AuditItemCount(data.books, saved, b.brand, s) = 1

----------------------------------------------------------------------------
\* C29: the file written by _save_results for an OPTIMAL/FEASIBLE result can
\* be read back into an OptimizationResult, and the assignments read back
\* are those of the result, printing_method included.
C29_SavedResultReloads ==
    (reloaded.state # "none" /\ result.status \in {"OPTIMAL", "FEASIBLE"}) =>
        /\ reloaded.state = "loaded"
        /\ reloaded.assignments = result.assignments

----------------------------------------------------------------------------
\* sum of total_cost minus objective_value, times ScaleFactor * CostDenominator
ObjectiveShortfall ==
    TotalCostOfAssignments * ScaleFactor - result.objective_value[1] * CostDenominator

\* C30 (as stated): in every OPTIMAL or FEASIBLE result objective_value never
\* exceeds the sum of total_cost over the Assignments and falls short of it
\* by strictly less than 0.001 times the number of books.
C30_ObjectiveTruncated ==
    HasSolution =>
        /\ ObjectiveShortfall >= 0
        /\ ObjectiveShortfall < CostDenominator * Len(data.books)

\* C30 (amended): in every OPTIMAL or FEASIBLE result objective_value never
\* exceeds the sum of total_cost; with at least one book it falls short by
\* strictly less than 0.001 times the number of books, and with no book both
\* are zero.
C30_ObjectiveTruncatedWhenBooks ==
    HasSolution =>
        /\ ObjectiveShortfall >= 0
        /\ IF data.books = <<>>
           THEN ObjectiveShortfall = 0 /\ result.objective_value[1] = 0
           ELSE ObjectiveShortfall < CostDenominator * Len(data.books)

\* a result for two books whose truncations add up to more than one unit of
\* the integer scale, and less than two
C30_Witness ==
    /\ HasSolution
    /\ Len(data.books) = 2
    /\ ObjectiveShortfall > CostDenominator
    /\ ObjectiveShortfall < 2 * CostDenominator

====
